---- MODULE Spec2Model ----
(***************************************************************************)
(* Audio capture and transcription orchestration of coder-opensource:      *)
(* electron/AudioHelper.ts (recording controller, fallback synthesizer,    *)
(* process supervision, transcription client) and the audio handlers of    *)
(* electron/ipcHandlers.ts (command/event gateway).                        *)
(*                                                                         *)
(* Node runs every handler to its next real suspension point (a timer, a   *)
(* child process or network I/O) before it dispatches another command, so  *)
(* one action is one handler run between two such points.                  *)
(***************************************************************************)
EXTENDS Integers, Sequences, FiniteSets, TLC

\* ---------------------------------------------------------------- bounds
MaxUuids == 2           \* uuids drawn (recordings and temporary files)
MaxStopCalls == 2       \* stop-audio-recording invocations in flight
MaxStartCalls == 2      \* start-audio-recording invocations in flight
MaxTxCalls == 2         \* transcription invocations in flight
MaxLines == 3           \* lines of FFmpeg output listAudioDevices parses
MaxBytes == 3           \* bytes of a recorded blob sent as an inline payload
MaxRecorders == 2       \* microphone streams the voice button acquires
MaxChunks == 2          \* timeslice chunks one MediaRecorder delivers

\* ------------------------------------------------------------- constants
NULL == <<>>            \* JavaScript null for a path
NoProcess == 0          \* JavaScript null for recordingProcess
MinArtifactSize == 100  \* stats.size < 100 warning threshold

\* process.platform; the code modelled here only tells win32 from the rest.
Platforms == {"win32", "linux"}
StopCalls == 1..MaxStopCalls
StartCalls == 1..MaxStartCalls
TxCalls == 1..MaxTxCalls

\* path.join(this.audioDir, `recording-${uuid}.wav`)
AudioPath(n) == <<"audio", n, "wav">>

\* The header with the channel count changed to 2 and nothing else.
wavHeader_stereo ==
  << 82, 73, 70, 70,   36, 0, 0, 0,   87, 65, 86, 69,
     102, 109, 116, 32,   16, 0, 0, 0,   1, 0,   2, 0,
     68, 172, 0, 0,   136, 88, 1, 0,   2, 0,   16, 0,
     100, 97, 116, 97,   0, 0, 0, 0 >>

\* The 44 bytes simulateRecording writes.
wavHeader ==
  << 82, 73, 70, 70,   36, 0, 0, 0,   87, 65, 86, 69,
     102, 109, 116, 32,   16, 0, 0, 0,   1, 0,   1, 0,
     68, 172, 0, 0,   136, 88, 1, 0,   2, 0,   16, 0,
     100, 97, 116, 97,   0, 0, 0, 0 >>

\* What an external capture process may have left at its output path.
CapturedAudio == [i \in 1..(MinArtifactSize + 4) |-> 0]
CaptureContents == {<<>>, CapturedAudio}

VARIABLES
  audioHelper,            \* getAudioHelper() # null
  platform,               \* process.platform
  ffmpegPath,             \* this.ffmpegPath # null
  detectPc,               \* detectFFmpeg: "pending" until execFile settles
  mainWindow,             \* deps.getMainWindow() # null
  apiKey,                 \* configHelper.loadConfig().apiKey ("" = unset)
  devCall,                \* a direct listAudioDevices call: position and result
  audioBlob,              \* renderer: the bytes of the recorded Blob
  voice,                  \* renderer: the VoiceInputButton component
  isRecording,            \* this.isRecording
  currentRecordingPath,   \* this.currentRecordingPath
  recordingProcess,       \* this.recordingProcess (0 = null, else its pid)
  nextUuid,               \* number of uuids drawn so far
  disk,                   \* file system: path -> bytes, for existing files
  alive,                  \* pids of running capture processes
  spawned,                \* pids ever spawned
  stopPc,                 \* per stop call: "idle" or "grace"
  startPc,                \* per start call: "idle" or "devices"
  tx,                     \* per transcription call: its position and resources
  resp,                   \* response the last step returned (NoResp if none)
  emitted,                \* events the last step sent for a recording command
  txDone,                 \* the transcription call the last step ended, if any
  startedPath             \* path returned by the last successful start

ctl == <<isRecording, currentRecordingPath, recordingProcess>>
env == <<audioHelper, platform, ffmpegPath, detectPc, mainWindow, apiKey, devCall,
         audioBlob, voice>>
fsv == <<nextUuid, disk, alive, spawned>>
pcs == <<stopPc, startPc, tx>>
out == <<resp, emitted, txDone>>
vars == <<ctl, env, fsv, pcs, out, startedPath>>

\* ------------------------------------------------------------ file system
Exists(p) == p \in DOMAIN disk
WriteFile(d, p, bytes) == [q \in (DOMAIN d) \cup {p} |-> IF q = p THEN bytes ELSE d[q]]
Unlink(d, p) == [q \in (DOMAIN d) \ {p} |-> d[q]]

\* ---------------------------------------------------------------- results
NoResp == [cmd |-> "none", call |-> 0, success |-> FALSE, error |-> "",
           path |-> NULL, text |-> "", recording |-> FALSE]
Ok(cmd, call, p) == [NoResp EXCEPT !.cmd = cmd, !.call = call, !.success = TRUE, !.path = p]
Fail(cmd, call, e) == [NoResp EXCEPT !.cmd = cmd, !.call = call, !.error = e]
Event(n) == [name |-> n, path |-> NULL, text |-> "", error |-> ""]
RecordingStopped(p) == [Event("audio-recording-stopped") EXCEPT !.path = p]

\* ConfigHelper: the stored credential and hasApiKey().
ApiKeys == {"", "sk-key"}
hasApiKey == apiKey # ""

\* A transcription call that is not running.
TxIdle == [pc |-> "idle", via |-> "none", path |-> NULL, win |-> FALSE,
           timer |-> FALSE, inflight |-> FALSE, sent |-> 0, events |-> <<>>,
           audioData |-> <<>>, errorBody |-> "none"]

\* A new call takes the lowest free slot (slots only name calls in flight).
FreeSlot(c) == tx[c].pc = "idle" /\ \A b \in TxCalls : b < c => tx[b].pc # "idle"

\* listAudioDevices not called, or called and not yet settled; `ctor` tells
\* whether the constructor has called it.
DevIdle == [pc |-> "idle", exec |-> "none", stderr |-> <<>>, devices |-> <<>>,
            ctor |-> FALSE]

\* VoiceInputButton before any toggle.  Recorders and their streams are
\* numbered in the order getUserMedia resolves; a chunk is <<recorder, k>>.
Recorders == 1..MaxRecorders
NoTranscription == [rec |-> 0, kind |-> "none", chunks |-> <<>>]
VoiceIdle ==
  [isRecording |-> FALSE,        \* the isRecording state
   pendingStarts |-> 0,          \* startRecording runs awaiting getUserMedia
   acquired |-> 0,               \* streams acquired so far
   mediaRecorderRef |-> 0,       \* mediaRecorderRef.current (0 = null)
   audioStreamRef |-> 0,         \* audioStreamRef.current (0 = null)
   audioChunksRef |-> <<>>,      \* audioChunksRef.current
   recorder |-> [n \in Recorders |-> "none"],
   track |-> [n \in Recorders |-> "none"],
   produced |-> [n \in Recorders |-> 0],
   last |-> NoTranscription]     \* what the last stopRecording transcribed

\* A step that returns no response and sends no event.
Quiet == resp' = NoResp /\ emitted' = <<>> /\ txDone' = TxIdle

\* Everything but the renderer's blob.
InitBase ==
  /\ audioHelper = FALSE
  /\ platform \in Platforms
  /\ ffmpegPath = FALSE
  /\ detectPc = "idle"
  /\ mainWindow \in BOOLEAN
  /\ apiKey \in ApiKeys
  /\ devCall = DevIdle
  /\ voice = VoiceIdle
  /\ isRecording = FALSE
  /\ currentRecordingPath = NULL
  /\ recordingProcess = NoProcess
  /\ nextUuid = 0
  /\ disk = <<>>
  /\ alive = {}
  /\ spawned = {}
  /\ stopPc = [c \in StopCalls |-> "idle"]
  /\ startPc = [s \in StartCalls |-> "idle"]
  /\ tx = [c \in TxCalls |-> TxIdle]
  /\ resp = NoResp
  /\ emitted = <<>>
  /\ txDone = TxIdle
  /\ startedPath = NULL

\* One recorded blob is enough where the payload's content is not the point.
Init == InitBase /\ audioBlob = <<1, 2, 3, 250>>

\* ------------------------------------------------------------ environment
\* main creates the helper: the constructor starts detectFFmpeg, which
\* suspends at its execFile, and then reads this.ffmpegPath to decide
\* whether to call listAudioDevices.
Constructor ==
  /\ ~audioHelper
  /\ audioHelper' = TRUE
  /\ detectPc' = "pending"
  /\ devCall' = IF ffmpegPath
                  THEN [DevIdle EXCEPT !.pc = "exec", !.ctor = TRUE]
                  ELSE devCall
  /\ Quiet
  /\ UNCHANGED <<platform, ffmpegPath, mainWindow, apiKey, audioBlob, voice, ctl, fsv, pcs,
                 startedPath>>

\* detectFFmpeg resumes after `which ffmpeg` / `where ffmpeg` settled.
DetectFFmpeg ==
  /\ detectPc = "pending"
  /\ detectPc' = "done"
  /\ \E found \in BOOLEAN : ffmpegPath' = found
  /\ Quiet
  /\ UNCHANGED <<audioHelper, platform, mainWindow, apiKey, devCall, audioBlob, voice, ctl, fsv, pcs,
                 startedPath>>

\* ------------------------------------------- AudioHelper.listAudioDevices
\* A line of FFmpeg's device listing: whether it contains "(audio)", and the
\* text between its first pair of double quotes ("" when there is none).
MicLine == [audio |-> TRUE, quoted |-> "Microphone (Realtek Audio)"]
LineInLine == [audio |-> TRUE, quoted |-> "Line In"]
BareAudioLine == [audio |-> TRUE, quoted |-> ""]
VideoLine == [audio |-> FALSE, quoted |-> "USB Camera"]
Lines == {MicLine, LineInLine, BareAudioLine, VideoLine}
Stderrs == UNION {[1..n -> Lines] : n \in 0..MaxLines}

\* How execFile(ffmpegPath, args, {timeout: 5000}) settles: "exit0" resolves
\* with the output; "error" rejects with err.stderr set (non-zero exit, or
\* killed after 5 s with what was written so far); "spawn-error" rejects
\* with no output.
ExecOutcomes ==
  {[kind |-> k, stderr |-> e] : k \in {"exit0", "error"}, e \in Stderrs}
    \cup {[kind |-> "spawn-error", stderr |-> <<>>]}

\* The loop over stderr.split('\n'): the quoted name of each "(audio)" line.
RECURSIVE parseDevices(_)
parseDevices(lines) ==
  IF Len(lines) = 0 THEN <<>>
  ELSE (IF lines[1].audio /\ lines[1].quoted # "" THEN <<lines[1].quoted>> ELSE <<>>)
         \o parseDevices(Tail(lines))

\* listAudioDevices with neither `.catch` on execFile nor the outer catch.
listAudioDevices_rethrow(o) ==
  IF o.kind # "exit0"
    THEN [DevIdle EXCEPT !.pc = "rejected", !.exec = o.kind, !.stderr = o.stderr]
    ELSE [DevIdle EXCEPT !.pc = "returned", !.exec = o.kind, !.stderr = o.stderr,
            !.devices = IF platform = "win32" THEN parseDevices(o.stderr) ELSE <<>>]

\* listAudioDevices once execFile has settled with o: a rejection becomes
\* { stderr: err.stderr || '' }; only win32 output is parsed.
listAudioDevices(o) ==
  [DevIdle EXCEPT !.pc = "returned", !.exec = o.kind, !.stderr = o.stderr,
     !.devices = IF platform = "win32" THEN parseDevices(o.stderr) ELSE <<>>]

\* listAudioDevices is called: without FFmpeg it returns [] at once,
\* otherwise it awaits execFile.
ListAudioDevicesCall ==
  /\ audioHelper
  /\ devCall.pc # "exec"
  /\ devCall' = IF ~ffmpegPath
                  THEN [DevIdle EXCEPT !.pc = "returned", !.ctor = devCall.ctor]
                  ELSE [DevIdle EXCEPT !.pc = "exec", !.ctor = devCall.ctor]
  /\ Quiet
  /\ UNCHANGED <<audioHelper, platform, ffmpegPath, detectPc, mainWindow, apiKey,
                 audioBlob, voice, ctl, fsv, pcs, startedPath>>

\* execFile settles and listAudioDevices returns.
ListAudioDevicesSettles ==
  /\ devCall.pc = "exec"
  /\ \E o \in ExecOutcomes :
       devCall' = [listAudioDevices(o) EXCEPT !.ctor = devCall.ctor]
  /\ Quiet
  /\ UNCHANGED <<audioHelper, platform, ffmpegPath, detectPc, mainWindow, apiKey,
                 audioBlob, voice, ctl, fsv, pcs, startedPath>>

\* The main window is created or closed.
WindowChange ==
  /\ mainWindow' = ~mainWindow
  /\ Quiet
  /\ UNCHANGED <<audioHelper, platform, ffmpegPath, detectPc, apiKey, devCall, audioBlob, voice,
                 ctl, fsv,
                 pcs, startedPath>>

\* ipcMain.handle("update-config"): the credential is set or removed.
UpdateConfig ==
  /\ \E k \in ApiKeys : k # apiKey /\ apiKey' = k
  /\ Quiet
  /\ UNCHANGED <<audioHelper, platform, ffmpegPath, detectPc, mainWindow, devCall,
                 audioBlob, voice, ctl,
                 fsv, pcs, startedPath>>

\* simulateRecording setting the flag before it writes the file.
simulateRecording_flagFirst(s, p, writeOk) ==
  IF writeOk /\ p # NULL
    THEN /\ disk' = WriteFile(disk, p, wavHeader)
         /\ isRecording' = TRUE
         /\ resp' = Ok("start", s, p)
         /\ startedPath' = p
    ELSE /\ resp' = Fail("start", s, "Failed to simulate recording")
         /\ isRecording' = TRUE
         /\ UNCHANGED <<disk, startedPath>>

\* simulateRecording setting the flag without writing the file.
simulateRecording_noWrite(s, p, writeOk) ==
  IF writeOk /\ p # NULL
    THEN /\ disk' = disk
         /\ isRecording' = TRUE
         /\ resp' = Ok("start", s, p)
         /\ startedPath' = p
    ELSE /\ resp' = Fail("start", s, "Failed to simulate recording")
         /\ UNCHANGED <<disk, isRecording, startedPath>>

\* ------------------------------------------------ AudioHelper.startRecording
\* simulateRecording: write the header, then set the flag; a write error
\* (also: no path to write to) is caught and reported, and what
\* startRecording assigned before stays.
simulateRecording(s, p, writeOk) ==
  IF writeOk /\ p # NULL
    THEN /\ disk' = WriteFile(disk, p, wavHeader)
         /\ isRecording' = TRUE
         /\ resp' = Ok("start", s, p)
         /\ startedPath' = p
    ELSE /\ resp' = Fail("start", s, "Failed to simulate recording")
         /\ UNCHANGED <<disk, isRecording, startedPath>>

\* startRecording without its "Already recording" guard.
startRecording_noGuard(writeOk) ==
  /\ nextUuid < MaxUuids
  /\ nextUuid' = nextUuid + 1
  /\ currentRecordingPath' = AudioPath(nextUuid + 1)
  /\ simulateRecording(0, AudioPath(nextUuid + 1), writeOk)
  /\ UNCHANGED <<recordingProcess, alive, spawned>>

\* startRecording as shipped: the guard, a fresh path, always simulate.
startRecording(writeOk) ==
  IF isRecording
    THEN /\ resp' = Fail("start", 0, "Already recording")
         /\ UNCHANGED <<ctl, fsv, startedPath>>
    ELSE /\ nextUuid < MaxUuids
         /\ nextUuid' = nextUuid + 1
         /\ currentRecordingPath' = AudioPath(nextUuid + 1)
         /\ simulateRecording(0, AudioPath(nextUuid + 1), writeOk)
         /\ UNCHANGED <<recordingProcess, alive, spawned>>

\* ipcMain.handle("start-audio-recording")
StartAudioRecording ==
  /\ IF ~audioHelper
       THEN /\ resp' = Fail("start", 0, "Audio helper not available")
            /\ UNCHANGED <<ctl, fsv, startedPath>>
       ELSE \E writeOk \in BOOLEAN : startRecording(writeOk)
  /\ emitted' = <<>>
  /\ txDone' = TxIdle
  /\ UNCHANGED <<env, pcs>>

\* getRecordingStatus reporting the path of the last start instead of the
\* field.
getRecordingStatus_stale ==
  [NoResp EXCEPT !.cmd = "status", !.recording = isRecording, !.path = startedPath]

\* ------------------------------------------- AudioHelper.getRecordingStatus
getRecordingStatus ==
  [NoResp EXCEPT !.cmd = "status", !.recording = isRecording, !.path = currentRecordingPath]

\* ipcMain.handle("get-recording-status")
GetRecordingStatus ==
  /\ resp' = IF ~audioHelper THEN [NoResp EXCEPT !.cmd = "status"] ELSE getRecordingStatus
  /\ emitted' = <<>>
  /\ txDone' = TxIdle
  /\ UNCHANGED <<ctl, env, fsv, pcs, startedPath>>

\* stopRecording treating a file below the size threshold as a failure.
stopVerify_sizeFails(c, proc) ==
  IF currentRecordingPath # NULL
       /\ (~Exists(currentRecordingPath)
             \/ Len(disk[currentRecordingPath]) < MinArtifactSize)
    THEN /\ resp' = Fail("stop", c, "Recording file not found after stopping")
         /\ recordingProcess' = proc
         /\ UNCHANGED <<isRecording, currentRecordingPath>>
    ELSE /\ isRecording' = FALSE
         /\ currentRecordingPath' = NULL
         /\ recordingProcess' = proc
         /\ resp' = Ok("stop", c, currentRecordingPath)

\* stopRecording clearing the path before it copies it for the result.
stopVerify_pathLost(c, proc) ==
  IF currentRecordingPath # NULL /\ ~Exists(currentRecordingPath)
    THEN /\ resp' = Fail("stop", c, "Recording file not found after stopping")
         /\ recordingProcess' = proc
         /\ UNCHANGED <<isRecording, currentRecordingPath>>
    ELSE /\ isRecording' = FALSE
         /\ currentRecordingPath' = NULL
         /\ recordingProcess' = proc
         /\ resp' = Ok("stop", c, NULL)

\* --------------------------------------------- AudioHelper.stopRecording
\* stopRecording after the process branch: check the file (a size below
\* MinArtifactSize is only logged), reset the state, return the path.
\* `proc` is the value the branch left in the handle.
stopVerify(c, proc) ==
  IF currentRecordingPath # NULL /\ ~Exists(currentRecordingPath)
    THEN /\ resp' = Fail("stop", c, "Recording file not found after stopping")
         /\ recordingProcess' = proc
         /\ UNCHANGED <<isRecording, currentRecordingPath>>
    ELSE /\ isRecording' = FALSE
         /\ currentRecordingPath' = NULL
         /\ recordingProcess' = proc
         /\ resp' = Ok("stop", c, currentRecordingPath)

\* The catch block of stopRecording.
stopCatch(c, msg) ==
  /\ isRecording' = FALSE
  /\ currentRecordingPath' = NULL
  /\ recordingProcess' = recordingProcess
  /\ resp' = Fail("stop", c, msg)

\* The handler notifying whatever stopRecording returned.
stopNotify_always ==
  emitted' = IF mainWindow THEN <<RecordingStopped(resp'.path)>> ELSE <<>>

\* The stop-audio-recording handler's notification after the await.
stopNotify ==
  emitted' = IF mainWindow /\ resp'.success /\ resp'.path # NULL
               THEN <<RecordingStopped(resp'.path)>>
               ELSE <<>>

\* stopRecording resetting the state before the grace period instead of
\* after it.
stopRecording_resetFirst(c, killThrows, taskkillThrows) ==
  IF ~isRecording
    THEN /\ resp' = Fail("stop", c, "Not currently recording")
         /\ UNCHANGED <<ctl, alive, stopPc>>
    ELSE IF recordingProcess # NoProcess
      THEN IF platform # "win32" /\ killThrows
             THEN /\ stopCatch(c, "Failed to stop recording")
                  /\ UNCHANGED <<alive, stopPc>>
             ELSE /\ alive' = IF killThrows THEN alive ELSE alive \ {recordingProcess}
                  /\ stopPc' = [stopPc EXCEPT ![c] = "grace"]
                  /\ resp' = NoResp
                  /\ isRecording' = FALSE
                  /\ UNCHANGED <<currentRecordingPath, recordingProcess>>
      ELSE /\ IF currentRecordingPath # NULL /\ ~Exists(currentRecordingPath)
                THEN stopCatch(c, "Failed to stop recording")
                ELSE stopVerify(c, recordingProcess)
           /\ UNCHANGED <<alive, stopPc>>

\* stopRecording without its "Not currently recording" guard.
stopRecording_noGuard(c, killThrows, taskkillThrows) ==
  IF recordingProcess # NoProcess
    THEN IF platform # "win32" /\ killThrows
           THEN /\ stopCatch(c, "Failed to stop recording")
                /\ UNCHANGED <<alive, stopPc>>
           ELSE /\ alive' = IF killThrows THEN alive ELSE alive \ {recordingProcess}
                /\ stopPc' = [stopPc EXCEPT ![c] = "grace"]
                /\ resp' = NoResp
                /\ UNCHANGED ctl
    ELSE /\ IF currentRecordingPath # NULL /\ ~Exists(currentRecordingPath)
              THEN stopCatch(c, "Failed to stop recording")
              ELSE stopVerify(c, recordingProcess)
         /\ UNCHANGED <<alive, stopPc>>

\* stopRecording up to its first suspension or its return.
stopRecording(c, killThrows, taskkillThrows) ==
  IF ~isRecording
    THEN /\ resp' = Fail("stop", c, "Not currently recording")
         /\ UNCHANGED <<ctl, alive, stopPc>>
    ELSE IF recordingProcess # NoProcess
      THEN IF platform = "win32"
             THEN \* kill() and taskkill sit in one try: a throwing kill()
                  \* skips taskkill, a throwing taskkill is only logged
                  /\ alive' = IF killThrows THEN alive ELSE alive \ {recordingProcess}
                  /\ stopPc' = [stopPc EXCEPT ![c] = "grace"]
                  /\ resp' = NoResp
                  /\ UNCHANGED ctl
             ELSE IF killThrows
                    THEN /\ stopCatch(c, "Failed to stop recording")
                         /\ UNCHANGED <<alive, stopPc>>
                    ELSE /\ alive' = alive \ {recordingProcess}
                         /\ stopPc' = [stopPc EXCEPT ![c] = "grace"]
                         /\ resp' = NoResp
                         /\ UNCHANGED ctl
      ELSE /\ IF currentRecordingPath # NULL /\ ~Exists(currentRecordingPath)
                THEN stopCatch(c, "Failed to stop recording")
                ELSE stopVerify(c, recordingProcess)
           /\ UNCHANGED <<alive, stopPc>>

\* ipcMain.handle("stop-audio-recording"), from its start.
StopAudioRecording(c) ==
  /\ stopPc[c] = "idle"
  /\ IF ~audioHelper
       THEN /\ resp' = Fail("stop", c, "Audio helper not available")
            /\ UNCHANGED <<ctl, alive, stopPc>>
       ELSE \E killThrows \in BOOLEAN, taskkillThrows \in BOOLEAN :
              stopRecording(c, killThrows, taskkillThrows)
  /\ stopNotify
  /\ txDone' = TxIdle
  /\ UNCHANGED <<env, nextUuid, disk, spawned, startPc, tx, startedPath>>

\* stopRecording resumes when the grace timer fires, and the handler ends.
StopAfterGrace(c) ==
  /\ stopPc[c] = "grace"
  /\ stopPc' = [stopPc EXCEPT ![c] = "idle"]
  /\ stopVerify(c, NoProcess)
  /\ stopNotify
  /\ txDone' = TxIdle
  /\ UNCHANGED <<env, fsv, startPc, tx, startedPath>>

\* -------------------------------------- AudioHelper.cleanupAudioDirectory
CleanupAudioDirectory ==
  /\ audioHelper
  /\ disk' = [q \in {p \in DOMAIN disk : ~(p[1] = "audio" /\ p[3] = "wav")} |-> disk[q]]
  /\ Quiet
  /\ UNCHANGED <<ctl, env, nextUuid, alive, spawned, pcs, startedPath>>

\* ------------------------------------------------------- transcription
\* Paths a caller may pass: a recording by absolute path or by its name
\* relative to the audio directory.
RelPath(n) == <<"rel", n, "wav">>
TempPath_fixedName(n) == <<"temp", 1, "webm">>
TempPath(n) == <<"temp", n, "webm">>
AudioPaths == {AudioPath(n) : n \in {1, MaxUuids}} \cup {RelPath(n) : n \in {1, MaxUuids}}

\* path.isAbsolute(audioPath) ? audioPath : path.join(this.audioDir, audioPath)
FullPath(audioPath) ==
  IF audioPath[1] = "rel" THEN <<"audio", audioPath[2], audioPath[3]>> ELSE audioPath

\* What the remote endpoint can answer once the request was sent.
Transcripts == {"", "hello"}
ErrorBodies == {"json-with-message", "json-without-message", "not-json"}

\* What transcribeAudio's catch returns after controller.abort().
AbortMessage == "Failed to transcribe audio: The user aborted a request."

TxOk(c, t) == [NoResp EXCEPT !.cmd = "transcribe", !.call = c, !.success = TRUE, !.text = t]
TxFail(c, e) == Fail("transcribe", c, e)

\* transcribeAudio checking the credential before the file.
transcribeChecks_keyFirst(d, fullPath) ==
  IF apiKey = "" THEN "OpenAI API key not configured"
  ELSE IF fullPath \notin DOMAIN d THEN "Audio file not found"
  ELSE ""

\* transcribeAudio without its credential check.
transcribeChecks_noKeyCheck(d, fullPath) ==
  IF fullPath \notin DOMAIN d THEN "Audio file not found" ELSE ""

\* transcribeAudio before it sends anything: "" when both checks pass.
transcribeChecks(d, fullPath) ==
  IF fullPath \notin DOMAIN d THEN "Audio file not found"
  ELSE IF apiKey = "" THEN "OpenAI API key not configured"
  ELSE ""

\* transcribeAudio called in slot t on fullPath, with the disk d its caller
\* leaves: it returns at once (pc "return"), or arms the timer, sends the
\* request and suspends in fetch.
transcribeAudio(t, d, fullPath) ==
  IF transcribeChecks(d, fullPath) # ""
    THEN [t EXCEPT !.pc = "return", !.path = fullPath]
    ELSE [t EXCEPT !.pc = "fetch", !.path = fullPath, !.timer = TRUE,
                   !.inflight = TRUE, !.sent = t.sent + 1,
                   !.audioData = d[fullPath]]

\* The handlers' notification about the result of transcribeAudio.
resultEvent(r) ==
  IF r.success /\ r.text # ""
    THEN [Event("transcription-completed") EXCEPT !.text = r.text]
    ELSE [Event("transcription-error") EXCEPT
            !.error = IF r.error # "" THEN r.error ELSE "Unknown error"]

\* Every handler deleting the file it had transcribed.
txReturn_unlinkAll(c, t, d, r) ==
  LET now == IF t.via # "client" /\ t.win THEN <<resultEvent(r)>> ELSE <<>> IN
  /\ disk' = IF t.path \in DOMAIN d THEN Unlink(d, t.path) ELSE d
  /\ tx' = [tx EXCEPT ![c] = [TxIdle EXCEPT !.timer = t.timer, !.inflight = t.inflight]]
  /\ txDone' = [t EXCEPT !.pc = "done", !.events = t.events \o now]
  /\ resp' = r
  /\ emitted' = <<>>

\* The inline handler returning without fs.unlinkSync(tempFilePath).
txReturn_noUnlink(c, t, d, r) ==
  LET now == IF t.via # "client" /\ t.win THEN <<resultEvent(r)>> ELSE <<>> IN
  /\ disk' = d
  /\ tx' = [tx EXCEPT ![c] = [TxIdle EXCEPT !.timer = t.timer, !.inflight = t.inflight]]
  /\ txDone' = [t EXCEPT !.pc = "done", !.events = t.events \o now]
  /\ resp' = r
  /\ emitted' = <<>>

\* The rest of a handler once transcribeAudio returned r in slot t: the
\* inline handler unlinks its temporary file, both handlers notify.
txReturn(c, t, d, r) ==
  LET now == IF t.via # "client" /\ t.win THEN <<resultEvent(r)>> ELSE <<>> IN
  /\ disk' = IF t.via = "inline" THEN Unlink(d, t.path) ELSE d
  /\ tx' = [tx EXCEPT ![c] = [TxIdle EXCEPT !.timer = t.timer, !.inflight = t.inflight]]
  /\ txDone' = [t EXCEPT !.pc = "done", !.events = t.events \o now]
  /\ resp' = r
  /\ emitted' = <<>>

\* The request settles but no finally clears the timer.
settled_noClear(t) == [t EXCEPT !.inflight = FALSE]

\* transcribeAudio's finally (clearTimeout) once its request has settled.
settled(t) == [t EXCEPT !.timer = FALSE, !.inflight = FALSE]

\* A handler run from its call of transcribeAudio to the next suspension.
txCall(c, t, d, fullPath) ==
  LET t2 == transcribeAudio(t, d, fullPath) IN
  IF t2.pc = "return"
    THEN txReturn(c, t2, d, TxFail(c, transcribeChecks(d, fullPath)))
    ELSE /\ tx' = [tx EXCEPT ![c] = t2]
         /\ disk' = d
         /\ Quiet

\* A handler that returns before it reaches transcribeAudio.
txReject(c, via, e, events) ==
  /\ txDone' = [TxIdle EXCEPT !.pc = "done", !.via = via, !.events = events]
  /\ resp' = TxFail(c, e)
  /\ emitted' = <<>>
  /\ UNCHANGED <<disk, tx>>

\* The slot of a handler that passed its checks and announced the start.
txStarted(via) ==
  [TxIdle EXCEPT !.via = via, !.win = mainWindow,
                 !.events = IF mainWindow THEN <<Event("transcription-started")>> ELSE <<>>]

\* AudioHelper.transcribeAudio called directly.
TranscribeAudio(c, audioPath) ==
  /\ FreeSlot(c)
  /\ audioHelper
  /\ txCall(c, [TxIdle EXCEPT !.via = "client"], disk, FullPath(audioPath))
  /\ UNCHANGED <<ctl, env, nextUuid, alive, spawned, stopPc, startPc, startedPath>>

\* ipcMain.handle("transcribe-audio")
TranscribeAudioHandler(c, audioPath) ==
  /\ FreeSlot(c)
  /\ IF ~hasApiKey
       THEN txReject(c, "path", "API key required",
                     IF mainWindow THEN <<Event("api-key-invalid")>> ELSE <<>>)
       ELSE IF ~audioHelper
         THEN txReject(c, "path", "Audio helper not available", <<>>)
         ELSE txCall(c, txStarted("path"), disk, FullPath(audioPath))
  /\ UNCHANGED <<ctl, env, nextUuid, alive, spawned, stopPc, startPc, startedPath>>

\* ---- inline payloads: characters are 0..63 (the base64 alphabet, by
\* value), 64 for "=", 65 for "," and 66 for any other character.
Pad == 64
Comma == 65
Other == 66

\* base64 of a byte sequence, as the renderer's FileReader produces it.
RECURSIVE Base64Encode(_)
Base64Encode(b) ==
  IF Len(b) = 0 THEN <<>>
  ELSE IF Len(b) = 1 THEN <<b[1] \div 4, (b[1] % 4) * 16, Pad, Pad>>
  ELSE IF Len(b) = 2
    THEN <<b[1] \div 4, (b[1] % 4) * 16 + b[2] \div 16, (b[2] % 16) * 4, Pad>>
  ELSE <<b[1] \div 4, (b[1] % 4) * 16 + b[2] \div 16,
         (b[2] % 16) * 4 + b[3] \div 64, b[3] % 64>>
       \o Base64Encode(SubSeq(b, 4, Len(b)))

\* Buffer.from(str, 'base64'): characters outside the alphabet are skipped,
\* four sextets give three bytes, a tail of two or three gives one or two.
RECURSIVE Sextets(_)
Sextets(str) ==
  IF Len(str) = 0 THEN <<>>
  ELSE (IF str[1] < 64 THEN <<str[1]>> ELSE <<>>) \o Sextets(Tail(str))

RECURSIVE DecodeSextets(_)
DecodeSextets(x) ==
  IF Len(x) < 2 THEN <<>>
  ELSE IF Len(x) = 2 THEN <<x[1] * 4 + x[2] \div 16>>
  ELSE IF Len(x) = 3
    THEN <<x[1] * 4 + x[2] \div 16, (x[2] % 16) * 16 + x[3] \div 4>>
  ELSE <<x[1] * 4 + x[2] \div 16, (x[2] % 16) * 16 + x[3] \div 4,
         (x[3] % 4) * 64 + x[4]>>
       \o DecodeSextets(SubSeq(x, 5, Len(x)))

\* Decoding that drops a final group of fewer than four sextets.
BufferFromBase64_dropTail(str) ==
  LET x == Sextets(str) IN DecodeSextets(SubSeq(x, 1, Len(x) - (Len(x) % 4)))

BufferFromBase64(str) == DecodeSextets(Sextets(str))

\* base64Audio.split(',')[1]: the text between the first and the second
\* comma; hasSecond is FALSE (undefined) when there is no comma.
RECURSIVE UpToComma(_)
UpToComma(str) ==
  IF Len(str) = 0 \/ str[1] = Comma THEN <<>> ELSE <<str[1]>> \o UpToComma(Tail(str))

SplitSecond(str) ==
  LET first == UpToComma(str) IN
  IF Len(first) = Len(str)
    THEN [hasSecond |-> FALSE, text |-> <<>>]
    ELSE [hasSecond |-> TRUE, text |-> UpToComma(SubSeq(str, Len(first) + 2, Len(str)))]

\* 'data:<mime>;base64,' + base64(bytes)
DataUrl(bytes) == <<Other, Other, Comma>> \o Base64Encode(bytes)

\* Payloads the renderer may send: a well-formed data URL and a string
\* without a comma.
SampleBytes == {<<1, 2, 3, 250>>}
Payloads == {DataUrl(b) : b \in SampleBytes} \cup {<<Other, Other>>}

\* The transcribe-web-audio handler without its catch: the exception leaves
\* the handler and the invocation is rejected, no response value is returned.
txCatch_rethrow(c, t) ==
  /\ txDone' = [t EXCEPT !.pc = "done"]
  /\ resp' = NoResp
  /\ emitted' = <<>>
  /\ UNCHANGED <<disk, tx>>

\* The handler's catch returning the failure without notifying the window.
txCatch_silent(c, t) ==
  /\ txDone' = [t EXCEPT !.pc = "done"]
  /\ resp' = TxFail(c, "handler exception")
  /\ emitted' = <<>>
  /\ UNCHANGED <<disk, tx>>

\* The catch block of the transcribe-web-audio handler.
txCatch(c, t) ==
  LET ev == IF mainWindow
              THEN <<[Event("transcription-error") EXCEPT !.error = "handler exception"]>>
              ELSE <<>> IN
  /\ txDone' = [t EXCEPT !.pc = "done", !.events = t.events \o ev]
  /\ resp' = TxFail(c, "handler exception")
  /\ emitted' = <<>>
  /\ UNCHANGED <<disk, tx>>

\* ipcMain.handle("transcribe-web-audio")
TranscribeWebAudioHandler(c, base64Audio, writeOk) ==
  /\ FreeSlot(c)
  /\ IF ~hasApiKey
       THEN /\ txReject(c, "inline", "API key required",
                        IF mainWindow THEN <<Event("api-key-invalid")>> ELSE <<>>)
            /\ UNCHANGED nextUuid
       ELSE IF ~audioHelper
         THEN /\ txReject(c, "inline", "Audio helper not available", <<>>)
              /\ UNCHANGED nextUuid
         ELSE LET base64Data == SplitSecond(base64Audio) IN
              IF ~base64Data.hasSecond
                THEN \* Buffer.from(undefined, 'base64') throws
                     /\ txCatch(c, txStarted("inline"))
                     /\ UNCHANGED nextUuid
                ELSE /\ nextUuid < MaxUuids
                     /\ nextUuid' = nextUuid + 1
                     /\ IF ~writeOk
                          THEN txCatch(c, txStarted("inline"))
                          ELSE txCall(c, txStarted("inline"),
                                      WriteFile(disk, TempPath(nextUuid + 1),
                                                BufferFromBase64(base64Data.text)),
                                      TempPath(nextUuid + 1))
  /\ UNCHANGED <<ctl, env, alive, spawned, stopPc, startPc, startedPath>>

\* ---- the renderer sending what it recorded
\* Blobs the renderer may have recorded.
ByteValues == {0, 165, 255}
Blobs == UNION {[1..n -> ByteValues] : n \in 0..MaxBytes}

\* VoiceInputButton.transcribeAudio: readAsDataURL(audioBlob), then
\* transcribeWebAudio(reader.result).
SendRecordedAudio(c, writeOk) == TranscribeWebAudioHandler(c, DataUrl(audioBlob), writeOk)

\* ---- transcribeAudio resumes
\* fetch resolves with a response; its body is read next.
fetchResolves(c) ==
  /\ tx[c].pc = "fetch"
  /\ tx' = [tx EXCEPT ![c].pc = "json"]
  /\ Quiet
  /\ UNCHANGED <<ctl, env, fsv, stopPc, startPc, startedPath>>

\* fetch rejects and the request is sent once more.
fetchRejects_retry(c) ==
  /\ tx[c].pc = "fetch"
  /\ tx[c].sent < 2
  /\ tx' = [tx EXCEPT ![c].sent = tx[c].sent + 1]
  /\ disk' = disk
  /\ Quiet
  /\ UNCHANGED <<ctl, env, nextUuid, alive, spawned, stopPc, startPc, startedPath>>

\* fetch rejects (transport error): finally, catch, and the handler ends.
fetchRejects(c) ==
  /\ tx[c].pc = "fetch"
  /\ txReturn(c, settled(tx[c]), disk, TxFail(c, "Failed to transcribe audio: network error"))
  /\ UNCHANGED <<ctl, env, nextUuid, alive, spawned, stopPc, startPc, startedPath>>

\* The message transcribeAudio reports for a non-success response.
remoteErrorMessage(body) ==
  IF body = "json-with-message"
    THEN "Failed to transcribe audio: OpenAI API error: error.message"
  ELSE IF body = "json-without-message"
    THEN "Failed to transcribe audio: OpenAI API error: statusText"
  ELSE "Failed to transcribe audio: invalid json response body"

\* response.json() settles: the transcript of a success response or the
\* error of a non-success one; finally, and the handler ends.
jsonSettles(c) ==
  /\ tx[c].pc = "json"
  /\ \/ \E t \in Transcripts : txReturn(c, settled(tx[c]), disk, TxOk(c, t))
     \/ \E b \in ErrorBodies :
          txReturn(c, [settled(tx[c]) EXCEPT !.errorBody = b], disk,
                   TxFail(c, remoteErrorMessage(b)))
  /\ UNCHANGED <<ctl, env, nextUuid, alive, spawned, stopPc, startPc, startedPath>>

\* The timer callback without controller.abort(): the request stays pending.
timerFires_noAbort(c) ==
  /\ tx[c].timer
  /\ tx[c].pc \in {"fetch", "json"}
  /\ tx' = [tx EXCEPT ![c].timer = FALSE]
  /\ disk' = disk
  /\ Quiet
  /\ UNCHANGED <<ctl, env, nextUuid, alive, spawned, stopPc, startPc, startedPath>>

\* The 30 s timer fires: controller.abort() rejects the pending fetch or body
\* read; finally, catch, and the handler ends.
timerFires(c) ==
  /\ tx[c].timer
  /\ tx[c].pc \in {"fetch", "json"}
  /\ txReturn(c, settled(tx[c]), disk,
              TxFail(c, AbortMessage))
  /\ UNCHANGED <<ctl, env, nextUuid, alive, spawned, stopPc, startPc, startedPath>>

\* ------------------------------------------------ real-capture strategy
\* The capture machinery with the strategy selection of startRecording
\* switched on (the block startRecording keeps disabled): FFmpeg when it was
\* found, the fallback otherwise.

\* startFFmpegRecording on darwin/linux: execFile, keep the handle, set the
\* flag; an exception is caught and reported.
startFFmpegRecording(s, p, spawnThrows) ==
  IF spawnThrows
    THEN /\ resp' = Fail("start", s, "Failed to start FFmpeg recording")
         /\ UNCHANGED <<isRecording, recordingProcess, alive, spawned, startedPath>>
    ELSE /\ recordingProcess' = p[2]
         /\ alive' = alive \cup {p[2]}
         /\ spawned' = spawned \cup {p[2]}
         /\ isRecording' = TRUE
         /\ resp' = Ok("start", s, p)
         /\ startedPath' = p

\* startRecording with the strategy selection on, up to its first
\* suspension (startWindowsRecording awaits listAudioDevices) or its return.
startRecordingWithCapture(s, writeOk, spawnThrows) ==
  IF isRecording
    THEN /\ resp' = Fail("start", s, "Already recording")
         /\ UNCHANGED <<ctl, fsv, startPc, startedPath>>
    ELSE /\ nextUuid < MaxUuids
         /\ nextUuid' = nextUuid + 1
         /\ currentRecordingPath' = AudioPath(nextUuid + 1)
         /\ IF ffmpegPath
              THEN IF platform = "win32"
                     THEN /\ startPc' = [startPc EXCEPT ![s] = "devices"]
                          /\ resp' = NoResp
                          /\ UNCHANGED <<isRecording, recordingProcess, disk, alive,
                                         spawned, startedPath>>
                     ELSE /\ startFFmpegRecording(s, AudioPath(nextUuid + 1), spawnThrows)
                          /\ UNCHANGED <<disk, startPc>>
              ELSE /\ simulateRecording(s, AudioPath(nextUuid + 1), writeOk)
                   /\ UNCHANGED <<recordingProcess, alive, spawned, startPc>>

\* ipcMain.handle("start-audio-recording") over that startRecording.
StartAudioRecordingWithCapture(s) ==
  /\ startPc[s] = "idle"
  /\ IF ~audioHelper
       THEN /\ resp' = Fail("start", s, "Audio helper not available")
            /\ UNCHANGED <<ctl, fsv, startPc, startedPath>>
       ELSE \E writeOk \in BOOLEAN, spawnThrows \in BOOLEAN :
              startRecordingWithCapture(s, writeOk, spawnThrows)
  /\ emitted' = <<>>
  /\ txDone' = TxIdle
  /\ UNCHANGED <<env, stopPc, tx>>

\* startWindowsRecording resumes with the device list: with or without a
\* device it ends in simulateRecording, on the path the field holds now.
startWindowsRecording(s) ==
  /\ startPc[s] = "devices"
  /\ startPc' = [startPc EXCEPT ![s] = "idle"]
  /\ \E writeOk \in BOOLEAN : simulateRecording(s, currentRecordingPath, writeOk)
  /\ emitted' = <<>>
  /\ txDone' = TxIdle
  /\ UNCHANGED <<currentRecordingPath, recordingProcess, nextUuid, alive, spawned,
                 env, stopPc, tx>>

\* A running capture process writes (or rewrites) its output file.
CaptureWrite(n) ==
  /\ n \in alive
  /\ \E bytes \in CaptureContents : disk' = WriteFile(disk, AudioPath(n), bytes)
  /\ Quiet
  /\ UNCHANGED <<ctl, env, nextUuid, alive, spawned, pcs, startedPath>>

\* ---------------------------------------------------------- specifications
\* The recording commands as shipped.
Next ==
  \/ Constructor
  \/ DetectFFmpeg
  \/ WindowChange
  \/ StartAudioRecording
  \/ GetRecordingStatus
  \/ \E c \in StopCalls : StopAudioRecording(c)
  \/ CleanupAudioDirectory

Spec == Init /\ [][Next]_vars

\* The recording commands with the capture strategy switched on.
NextCapture ==
  \/ Constructor
  \/ DetectFFmpeg
  \/ WindowChange
  \/ \E s \in StartCalls : StartAudioRecordingWithCapture(s)
  \/ \E s \in StartCalls : startWindowsRecording(s)
  \/ GetRecordingStatus
  \/ \E c \in StopCalls : StopAudioRecording(c)
  \/ \E c \in StopCalls : StopAfterGrace(c)
  \/ CleanupAudioDirectory
  \/ \E n \in 1..MaxUuids : CaptureWrite(n)

SpecCapture == Init /\ [][NextCapture]_vars

\* What a transcription call waits for.
TxResume ==
  \/ \E c \in TxCalls : fetchResolves(c)
  \/ \E c \in TxCalls : fetchRejects(c)
  \/ \E c \in TxCalls : jsonSettles(c)
  \/ \E c \in TxCalls : timerFires(c)

\* The state after one fallback session was recorded and stopped: its
\* artifact stays in the audio directory.
AfterSession ==
  /\ audioHelper = TRUE
  /\ platform = "linux"
  /\ ffmpegPath = FALSE
  /\ detectPc = "done"
  /\ mainWindow \in BOOLEAN
  /\ apiKey \in ApiKeys
  /\ devCall = DevIdle
  /\ audioBlob = <<1, 2, 3, 250>>
  /\ voice = VoiceIdle
  /\ isRecording = FALSE
  /\ currentRecordingPath = NULL
  /\ recordingProcess = NoProcess
  /\ nextUuid = 1
  /\ disk = WriteFile(<<>>, AudioPath(1), wavHeader)
  /\ alive = {}
  /\ spawned = {}
  /\ stopPc = [c \in StopCalls |-> "idle"]
  /\ startPc = [s \in StartCalls |-> "idle"]
  /\ tx = [c \in TxCalls |-> TxIdle]
  /\ resp = NoResp
  /\ emitted = <<>>
  /\ txDone = TxIdle
  /\ startedPath = AudioPath(1)

\* Transcription does not depend on the platform: one is enough.
InitTranscribe == (Init /\ platform = "linux") \/ AfterSession

\* The transcription commands and the client, over a recorded artifact.
NextTranscribe ==
  \/ Constructor
  \/ WindowChange
  \/ UpdateConfig
  \/ CleanupAudioDirectory
  \/ \E c \in TxCalls, p \in AudioPaths : TranscribeAudio(c, p)
  \/ \E c \in TxCalls, p \in AudioPaths : TranscribeAudioHandler(c, p)
  \/ \E c \in TxCalls, b \in Payloads, w \in BOOLEAN : TranscribeWebAudioHandler(c, b, w)
  \/ TxResume

SpecTranscribe == InitTranscribe /\ [][NextTranscribe]_vars

\* The transcription client called directly.
NextClient ==
  \/ Constructor
  \/ UpdateConfig
  \/ StartAudioRecording
  \/ CleanupAudioDirectory
  \/ \E c \in TxCalls, p \in AudioPaths : TranscribeAudio(c, p)
  \/ TxResume

SpecClient == Init /\ [][NextClient]_vars

\* setTimeout: an armed timer fires unless clearTimeout ran first.  Nothing
\* is assumed about the remote service.
SpecClientFair == SpecClient /\ \A c \in TxCalls : WF_vars(timerFires(c))

\* The five gateway commands as shipped; the window is there or not from
\* the start.
NextGateway ==
  \/ Constructor
  \/ StartAudioRecording
  \/ GetRecordingStatus
  \/ \E c \in StopCalls : StopAudioRecording(c)
  \/ CleanupAudioDirectory
  \/ \E c \in TxCalls, p \in AudioPaths : TranscribeAudioHandler(c, p)
  \/ \E c \in TxCalls, b \in Payloads, w \in BOOLEAN : TranscribeWebAudioHandler(c, b, w)
  \/ TxResume

\* The gateway handlers do not read the platform: one is enough.
InitGateway == Init /\ platform = "linux"

SpecGateway == InitGateway /\ [][NextGateway]_vars

\* Device discovery called on its own.
NextDevices ==
  \/ Constructor
  \/ DetectFFmpeg
  \/ ListAudioDevicesCall
  \/ ListAudioDevicesSettles

SpecDevices == Init /\ [][NextDevices]_vars

\* The public operations of the shipped AudioHelper.
NextPublic ==
  \/ Constructor
  \/ DetectFFmpeg
  \/ StartAudioRecording
  \/ GetRecordingStatus
  \/ \E c \in StopCalls : StopAudioRecording(c)
  \/ CleanupAudioDirectory
  \/ \E c \in TxCalls, p \in AudioPaths : TranscribeAudio(c, p)
  \/ TxResume

SpecPublic == Init /\ [][NextPublic]_vars

\* Inline payloads of every recorded blob; decoding reads neither the
\* platform nor the window.
InitDecode ==
  InitBase /\ audioBlob \in Blobs /\ platform = "linux" /\ ~mainWindow /\ apiKey = "sk-key"

NextDecode ==
  \/ Constructor
  \/ \E c \in TxCalls, w \in BOOLEAN : SendRecordedAudio(c, w)
  \/ TxResume

SpecDecode == InitDecode /\ [][NextDecode]_vars

\* ------------------------------------------------------- VoiceInputButton
\* A step of the component: the main process is not involved.
VoiceFrame ==
  /\ Quiet
  /\ UNCHANGED <<audioHelper, platform, ffmpegPath, detectPc, mainWindow, apiKey,
                 devCall, audioBlob, ctl, fsv, pcs, startedPath>>

\* The chunks recorder n has handed to its ondataavailable handler.
ChunksOf(v, n) == [k \in 1..v.produced[n] |-> <<n, k>>]

\* startRecording up to `await navigator.mediaDevices.getUserMedia(...)`.
VoiceStartRecording(v) == [v EXCEPT !.pendingStarts = v.pendingStarts + 1]

\* transcribeAudio up to its first await: the empty check and the Blob are
\* taken from audioChunksRef.current as it is when stopRecording calls it.
VoiceTranscribeAudio(v, n) ==
  [v EXCEPT !.last = IF Len(v.audioChunksRef) = 0
                       THEN [rec |-> n, kind |-> "rejected", chunks |-> <<>>]
                       ELSE [rec |-> n, kind |-> "sent", chunks |-> v.audioChunksRef]]

\* stopRecording: MediaRecorder.stop() queues the final dataavailable and
\* returns; the tracks of the referenced stream are stopped; then
\* transcribeAudio is called in the same turn.
VoiceStopRecording(v) ==
  IF v.mediaRecorderRef # 0 /\ v.isRecording
    THEN LET n == v.mediaRecorderRef
             stopped == [v EXCEPT
                           !.recorder[n] = IF v.recorder[n] = "recording"
                                             THEN "flushing" ELSE v.recorder[n],
                           !.track = IF v.audioStreamRef # 0
                                       THEN [v.track EXCEPT ![v.audioStreamRef] = "ended"]
                                       ELSE v.track,
                           !.isRecording = FALSE] IN
         VoiceTranscribeAudio(stopped, n)
    ELSE v

\* toggleRecording, from the button's onClick or the global shortcut.
VoiceToggleRecording ==
  /\ voice.isRecording \/ voice.acquired + voice.pendingStarts < MaxRecorders
  /\ voice' = IF voice.isRecording
                THEN VoiceStopRecording(voice)
                ELSE VoiceStartRecording(voice)
  /\ VoiceFrame

\* getUserMedia resolves: startRecording stores the stream and a new
\* MediaRecorder in the refs, clears the chunks, starts the recorder.
VoiceGetUserMediaResolves ==
  /\ voice.pendingStarts > 0
  /\ LET n == voice.acquired + 1 IN
       voice' = [voice EXCEPT !.pendingStarts = voice.pendingStarts - 1,
                              !.acquired = n,
                              !.audioStreamRef = n,
                              !.mediaRecorderRef = n,
                              !.audioChunksRef = <<>>,
                              !.recorder[n] = "recording",
                              !.track[n] = "live",
                              !.isRecording = TRUE]
  /\ VoiceFrame

\* getUserMedia rejects: the catch of startRecording shows a toast.
VoiceGetUserMediaRejects ==
  /\ voice.pendingStarts > 0
  /\ voice' = [voice EXCEPT !.pendingStarts = voice.pendingStarts - 1]
  /\ VoiceFrame

\* The 1 s timeslice of recorder n elapses: its ondataavailable handler
\* pushes the chunk to audioChunksRef.current.
VoiceOnDataAvailable(n) ==
  /\ voice.recorder[n] = "recording"
  /\ voice.produced[n] < MaxChunks
  /\ voice' = [voice EXCEPT !.produced[n] = voice.produced[n] + 1,
                            !.audioChunksRef =
                               Append(voice.audioChunksRef, <<n, voice.produced[n] + 1>>)]
  /\ VoiceFrame

\* The task MediaRecorder.stop() queued runs: the final dataavailable of
\* recorder n is handled (pushed when its size is above 0).
VoiceOnFinalData(n, nonEmpty) ==
  /\ voice.recorder[n] = "flushing"
  /\ voice' = IF nonEmpty
                THEN [voice EXCEPT !.recorder[n] = "inactive",
                                   !.produced[n] = voice.produced[n] + 1,
                                   !.audioChunksRef =
                                      Append(voice.audioChunksRef,
                                             <<n, voice.produced[n] + 1>>)]
                ELSE [voice EXCEPT !.recorder[n] = "inactive"]
  /\ VoiceFrame

\* The voice button under toggles, microphone grants and recorder events.
NextVoice ==
  \/ VoiceToggleRecording
  \/ VoiceGetUserMediaResolves
  \/ VoiceGetUserMediaRejects
  \/ \E n \in Recorders : VoiceOnDataAvailable(n)
  \/ \E n \in Recorders, nonEmpty \in BOOLEAN : VoiceOnFinalData(n, nonEmpty)

SpecVoice == Init /\ [][NextVoice]_vars
\* ------------------------------------------------------------------ claims

\* C1: every start/stop cycle that begins in Idle, also after earlier
\* sessions: start returns success with a path P and the session is then
\* recording on P (the only other outcome is the write failure start
\* reports); status returns exactly the flag and the path; stop of the
\* session whose artifact is in place returns success with the same P and
\* leaves the flag false and the path null.
C1_StartStopCycle ==
  [][ /\ (resp'.cmd = "start" /\ audioHelper /\ ~isRecording
            /\ resp'.error # "Failed to simulate recording")
         => (resp'.success /\ resp'.path # NULL /\ resp'.path = startedPath'
               /\ isRecording' /\ currentRecordingPath' = resp'.path)
      /\ (resp'.cmd = "status" /\ audioHelper)
         => (resp'.recording = isRecording /\ resp'.path = currentRecordingPath
               /\ (isRecording => resp'.path = startedPath))
      /\ (resp'.cmd = "stop" /\ isRecording /\ Exists(startedPath))
         => (resp'.success /\ resp'.path = startedPath
               /\ ~isRecording' /\ currentRecordingPath' = NULL)
    ]_vars

\* A second session was started and stopped with its own path.
C1_Witness ==
  resp.cmd = "stop" /\ resp.success /\ resp.path = AudioPath(2)
    /\ startedPath = AudioPath(2) /\ ~isRecording /\ currentRecordingPath = NULL

\* C2: a start issued while a started session has not been stopped fails
\* with "Already recording" and changes nothing: flag, path, handle, uuid
\* counter and files stay, and the path is still the first start's.
C2_SecondStartRejected ==
  [][ (resp'.cmd = "start" /\ isRecording)
        => (/\ ~resp'.success
            /\ resp'.error = "Already recording"
            /\ UNCHANGED <<isRecording, currentRecordingPath, recordingProcess,
                           nextUuid, disk>>
            /\ currentRecordingPath' = startedPath)
    ]_vars

C2_Witness ==
  resp.cmd = "start" /\ resp.error = "Already recording" /\ isRecording
    /\ currentRecordingPath = startedPath

\* C3 (as claimed): after any stop returns, the recording flag is false.
C3_StopAlwaysIdle ==
  (resp.cmd = "stop" /\ audioHelper) => ~isRecording

\* C4 (as claimed): while a session is recording or stopping, no start
\* succeeds.
C4_NoStartDuringSession ==
  [][ isRecording => ~(resp'.cmd = "start" /\ resp'.success) ]_vars

\* C5: a stop issued while the flag is false fails with "Not currently
\* recording", leaves flag, path, handle and files as they are and sends no
\* event.
C5_StopWhenIdle ==
  [][ \A c \in StopCalls :
        (resp'.cmd = "stop" /\ resp'.call = c /\ stopPc[c] = "idle"
           /\ audioHelper /\ ~isRecording)
        => (/\ ~resp'.success
            /\ resp'.error = "Not currently recording"
            /\ UNCHANGED <<isRecording, currentRecordingPath, recordingProcess,
                           disk, alive>>
            /\ emitted' = <<>>)
    ]_vars

C5_Witness ==
  resp.cmd = "stop" /\ resp.error = "Not currently recording" /\ ~isRecording
    /\ DOMAIN disk # {} /\ mainWindow

\* C6 (as claimed): the path is non-null exactly when the flag is true.
C6_PathIffRecording ==
  (currentRecordingPath # NULL) <=> isRecording

\* C7: a status call changes nothing (flag, path, handle, files, processes,
\* suspended calls) and returns exactly the flag and the path.
C7_StatusPureRead ==
  [][ (resp'.cmd = "status" /\ audioHelper)
        => (/\ UNCHANGED <<isRecording, currentRecordingPath, recordingProcess,
                           disk, alive, nextUuid, stopPc, startPc>>
            /\ resp'.recording = isRecording
            /\ resp'.path = currentRecordingPath)
    ]_vars

\* status was read while a stop was suspended in its grace period.
C7_Witness ==
  resp.cmd = "status" /\ resp.recording /\ resp.path = AudioPath(1)
    /\ \E c \in StopCalls : stopPc[c] = "grace"

\* C8 (as claimed): whenever the flag is false the process handle is absent.
C8_HandleOnlyWhileRecording ==
  ~isRecording => recordingProcess = NoProcess

\* The step is a call of transcribeAudio that returned at once.
TxImmediate == txDone'.pc = "done" /\ tx' = tx

\* C9: transcribeAudio called on a path where no file exists sends no
\* request and arms no timer, and returns "Audio file not found", with or
\* without a credential.
C9_MissingFileNoRequest ==
  [][ /\ \A c \in TxCalls :
           (tx[c].pc = "idle" /\ tx'[c].pc = "fetch" /\ tx'[c].via = "client")
           => tx'[c].path \in DOMAIN disk
      /\ (TxImmediate /\ txDone'.via = "client" /\ txDone'.path \notin DOMAIN disk)
         => (/\ ~resp'.success
             /\ resp'.error = "Audio file not found"
             /\ txDone'.sent = 0
             /\ ~txDone'.timer
             /\ ~txDone'.inflight)
    ]_vars

C9_Witness ==
  resp.error = "Audio file not found" /\ txDone.via = "client"
    /\ txDone.path \notin DOMAIN disk /\ apiKey = "" /\ DOMAIN disk # {}

\* C10: with no credential configured no request is sent; the client, on a
\* file that exists, returns "OpenAI API key not configured"; the two
\* gateway commands return "API key required" without calling the client
\* (no path was resolved, no temporary file written, no uuid drawn).
C10_NoCredentialNoRequest ==
  [][ apiKey = "" =>
        /\ \A c \in TxCalls : ~(tx[c].pc = "idle" /\ tx'[c].pc # "idle")
        /\ (TxImmediate /\ txDone'.via = "client" /\ txDone'.path \in DOMAIN disk)
           => (~resp'.success /\ resp'.error = "OpenAI API key not configured"
                 /\ txDone'.sent = 0)
        /\ (TxImmediate /\ txDone'.via \in {"path", "inline"})
           => (/\ ~resp'.success
               /\ resp'.error = "API key required"
               /\ txDone'.path = NULL
               /\ txDone'.sent = 0
               /\ UNCHANGED <<disk, nextUuid>>)
    ]_vars

C10_Witness ==
  resp.error = "OpenAI API key not configured" /\ txDone.via = "client"
    /\ txDone.path \in DOMAIN disk /\ apiKey = ""

\* C11: every transcribeAudio call that sent its request returns, even when
\* the remote service never answers: the timer aborts the request in flight
\* and the call returns a failure carrying the abort message, with the
\* request no longer in flight.
C11_TimeoutReturns ==
  /\ \A c \in TxCalls : (tx[c].pc \in {"fetch", "json"}) ~> (tx[c].pc = "idle")
  /\ [][ \A c \in TxCalls :
           (tx[c].pc \in {"fetch", "json"} /\ tx'[c].pc = "idle")
           => (/\ resp'.cmd = "transcribe" /\ resp'.call = c
               /\ (resp'.error = AbortMessage
                     => (tx[c].timer /\ ~resp'.success /\ ~txDone'.inflight
                           /\ ~tx'[c].inflight)))
       ]_vars

\* A call was ended by its timer while another one was still waiting.
C11_Witness ==
  /\ resp.cmd = "transcribe" /\ resp.error = AbortMessage /\ ~resp.success
  /\ txDone.via = "client" /\ txDone.sent = 1
  /\ \E c \in TxCalls : tx[c].pc = "fetch"

\* C12: once a transcribeAudio call has returned (transcript, error response,
\* transport error, timeout or a failed check) its timer is not armed and
\* none of its requests is in flight; a timer is armed only while a request
\* that was sent is in flight.
C12_NoDanglingResource ==
  /\ \A c \in TxCalls : tx[c].pc = "idle" => (~tx[c].timer /\ ~tx[c].inflight)
  /\ txDone.pc = "done" => (~txDone.timer /\ ~txDone.inflight)
  /\ \A c \in TxCalls : tx[c].timer => (tx[c].sent > 0 /\ tx[c].inflight)

\* A call returned a transcript while another call waits with its timer armed.
C12_Witness ==
  /\ txDone.pc = "done" /\ txDone.sent = 1 /\ resp.success
  /\ \E c \in TxCalls : tx[c].timer /\ tx[c].pc = "json"

C14_EveryCommandResponds ==
  [][ /\ (resp'.cmd \in {"start", "stop", "transcribe"} /\ ~resp'.success)
         => resp'.error # ""
      /\ txDone'.pc = "done" => resp'.cmd = "transcribe"
      /\ \A c \in TxCalls :
           (tx[c].pc # "idle" /\ tx'[c].pc = "idle")
           => (resp'.cmd = "transcribe" /\ resp'.call = c)
      /\ (ctl' # ctl) => resp'.cmd \in {"start", "stop"}
      /\ (nextUuid' # nextUuid) => resp'.cmd \in {"start", "transcribe"} \/ tx' # tx
    ]_vars

\* A payload without a comma made Buffer.from throw, and the handler
\* returned a failure response.
C14_Witness ==
  /\ resp.cmd = "transcribe" /\ ~resp.success /\ resp.error = "handler exception"
  /\ txDone.via = "inline" /\ txDone.path = NULL
  /\ isRecording

\* Positions in a call's event sequence of the webContents.send calls with
\* the given channel name.
EventsNamed(ev, name) == {i \in 1..Len(ev) : ev[i].name = name}
TerminalEvents(ev) ==
  EventsNamed(ev, "transcription-completed") \cup EventsNamed(ev, "transcription-error")

\* The last step ended a transcribe-audio or transcribe-web-audio command.
HandlerDone == txDone.pc = "done" /\ txDone.via \in {"path", "inline"}

\* C15: a transcription command sends transcription-started at most once;
\* when it returns, a started event has been followed by exactly one of
\* transcription-completed and transcription-error, also when the payload
\* has no comma, a file write fails or the client reports a failure; a
\* command that sent no started event sends no terminal event, and no
\* terminal event is sent while the command is still waiting.
C15_StartedThenOneTerminal ==
  /\ HandlerDone =>
       LET S == EventsNamed(txDone.events, "transcription-started")
           T == TerminalEvents(txDone.events) IN
       /\ Cardinality(S) <= 1
       /\ S # {} => (Cardinality(T) = 1 /\ \A i \in S, j \in T : i < j)
       /\ S = {} => T = {}
  /\ \A c \in TxCalls : tx[c].pc # "idle" => TerminalEvents(tx[c].events) = {}

\* A payload without a comma: started, then the catch's transcription-error.
C15_Witness ==
  /\ HandlerDone /\ txDone.via = "inline" /\ txDone.path = NULL
  /\ Len(txDone.events) = 2
  /\ txDone.events[1].name = "transcription-started"
  /\ txDone.events[2].name = "transcription-error"

\* C16 (as claimed): a transcription command that returns a failure while a
\* main window exists has sent transcription-error.
C16_FailureHasErrorEvent ==
  (HandlerDone /\ ~resp.success /\ mainWindow)
    => EventsNamed(txDone.events, "transcription-error") # {}

\* C17 (as claimed): a transcription command that returns success with text
\* T, the empty text included, has sent transcription-completed with exactly
\* T and no transcription-error; transcription-completed is sent only by
\* commands that return success.
C17_SuccessMeansCompleted ==
  /\ (HandlerDone /\ resp.success /\ txDone.win)
       => (/\ EventsNamed(txDone.events, "transcription-error") = {}
           /\ \E i \in EventsNamed(txDone.events, "transcription-completed") :
                 txDone.events[i].text = resp.text)
  /\ (HandlerDone /\ EventsNamed(txDone.events, "transcription-completed") # {})
       => resp.success

\* Reading a WAV header: little-endian fields and four-character tags at a
\* byte offset counted from 0.
LE16(b, off) == b[off + 1] + 256 * b[off + 2]
LE32(b, off) == b[off + 1] + 256 * b[off + 2] + 65536 * b[off + 3] + 16777216 * b[off + 4]
Tag(b, off) == SubSeq(b, off + 1, off + 4)
HeaderSize == 44
SampleRate == 44100
Channels == 1
BitsPerSample == 16

\* A canonical PCM header of HeaderSize bytes followed by no samples.
ValidEmptyWav(b) ==
  /\ Len(b) = HeaderSize
  /\ \A i \in 1..Len(b) : b[i] \in 0..255
  /\ Tag(b, 0) = <<82, 73, 70, 70>>          \* "RIFF"
  /\ Tag(b, 8) = <<87, 65, 86, 69>>          \* "WAVE"
  /\ Tag(b, 12) = <<102, 109, 116, 32>>      \* "fmt "
  /\ Tag(b, 36) = <<100, 97, 116, 97>>       \* "data"
  /\ LE32(b, 16) = 16
  /\ LE16(b, 20) = 1
  /\ LE16(b, 22) = Channels
  /\ LE32(b, 24) = SampleRate
  /\ LE16(b, 34) = BitsPerSample
  /\ LE32(b, 40) = 0
  /\ LE32(b, 40) = Len(b) - HeaderSize
  /\ LE32(b, 4) = 36 + LE32(b, 40)
  /\ LE32(b, 4) = 36
  /\ LE32(b, 28) = (LE32(b, 24) * LE16(b, 22) * LE16(b, 34)) \div 8
  /\ LE32(b, 28) = 88200
  /\ LE16(b, 32) = (LE16(b, 22) * LE16(b, 34)) \div 8
  /\ LE16(b, 32) = 2

\* C18: the file a successful start leaves at the returned path, read back,
\* is a 44-byte WAV header with no samples: tags RIFF/WAVE/"fmt "/data, fmt
\* size 16, PCM, 1 channel, 44100 Hz, 16 bits, data size 0, chunk size 36,
\* byte rate 88200 and block align 2, each derived field equal to what the
\* other fields give; so is every recording file in the audio directory.
C18_FallbackHeaderValid ==
  /\ (resp.cmd = "start" /\ resp.success)
       => (resp.path \in DOMAIN disk /\ ValidEmptyWav(disk[resp.path]))
  /\ \A p \in DOMAIN disk : p[1] = "audio" => ValidEmptyWav(disk[p])

\* The second session's artifact was written next to the first one.
C18_Witness ==
  /\ resp.cmd = "start" /\ resp.success /\ resp.path = AudioPath(2)
  /\ AudioPath(1) \in DOMAIN disk /\ AudioPath(2) \in DOMAIN disk

\* C19: listAudioDevices never rejects; called without FFmpeg it returns the
\* empty sequence at once; whatever way the FFmpeg invocation settles (exit
\* 0, non-zero exit, killed by the timeout, spawn failure, output with no
\* device line) it returns a sequence, possibly empty.
C19_DiscoveryNeverFails ==
  /\ [](devCall.pc \in {"idle", "exec", "returned"})
  /\ [](Len(devCall.devices) \in 0..MaxLines)
  /\ [][ /\ (devCall.pc # "exec" /\ devCall'.pc # devCall.pc /\ ~ffmpegPath)
             => (devCall'.pc = "returned" /\ devCall'.devices = <<>>)
         /\ (devCall.pc = "exec" /\ devCall' # devCall) => devCall'.pc = "returned"
       ]_vars

\* The FFmpeg invocation could not be spawned and the caller got [].
C19_Witness ==
  devCall.pc = "returned" /\ devCall.exec = "spawn-error" /\ devCall.devices = <<>>
    /\ platform = "win32" /\ ffmpegPath

\* C20: through construction, start, stop, status, transcribe and cleanup,
\* with or without FFmpeg on the host, no capture process is ever spawned,
\* the process handle stays null and no stop waits for a process; every
\* successful start has written the fixed fallback artifact at the path it
\* returns, which is the controller's current path.
C20_AlwaysFallback ==
  /\ [](spawned = {} /\ alive = {} /\ recordingProcess = NoProcess)
  /\ [](\A c \in StopCalls : stopPc[c] = "idle")
  /\ [][ (resp'.cmd = "start" /\ resp'.success)
           => (/\ resp'.path \in DOMAIN disk'
               /\ disk'[resp'.path] = wavHeader
               /\ resp'.path = currentRecordingPath'
               /\ resp'.path \notin DOMAIN disk)
       ]_vars

\* FFmpeg was found on the host and a start still wrote the fallback
\* artifact.
C20_Witness ==
  /\ ffmpegPath /\ detectPc = "done"
  /\ resp.cmd = "start" /\ resp.success
  /\ resp.path \in DOMAIN disk /\ disk[resp.path] = wavHeader
  /\ spawned = {}

\* C21 (as claimed): a stop of a session that holds a process handle never
\* returns before its grace period, whatever the kill calls do; after the
\* grace period, with the artifact in place, it returns success with the
\* path and leaves the controller idle.
C21_TerminationFailureSwallowed ==
  [][ \A c \in StopCalls :
        /\ (audioHelper /\ isRecording /\ recordingProcess # NoProcess
              /\ stopPc[c] = "idle")
           => ~(resp'.cmd = "stop" /\ resp'.call = c)
        /\ (stopPc[c] = "grace" /\ stopPc'[c] = "idle"
              /\ currentRecordingPath # NULL /\ Exists(currentRecordingPath))
           => (resp'.success /\ resp'.path = currentRecordingPath /\ ~isRecording')
    ]_vars

\* C22 (as claimed): while a stop is suspended in its grace period the
\* process handle is already null.
C22_HandleReleasedBeforeGrace ==
  \A c \in StopCalls : stopPc[c] = "grace" => recordingProcess = NoProcess

\* C23 (as claimed): of two overlapping stops exactly one returns the
\* session's path; no stop returns success with a null path, and a stop
\* issued while another one waits in its grace period is rejected with
\* "Not currently recording" instead of issuing termination again.
C23_OverlappingStopsSerialized ==
  [][ /\ (resp'.cmd = "stop" /\ resp'.success) => resp'.path # NULL
      /\ \A c, d \in StopCalls :
           (c # d /\ stopPc[d] = "grace" /\ stopPc[c] = "idle" /\ audioHelper
              /\ stopPc'[c] # stopPc[c])
           => FALSE
      /\ \A c, d \in StopCalls :
           (c # d /\ stopPc[d] = "grace" /\ stopPc[c] = "idle" /\ audioHelper
              /\ resp'.cmd = "stop" /\ resp'.call = c)
           => resp'.error = "Not currently recording"
    ]_vars

\* C24 (as claimed): whenever status reports recording, the file at the
\* path it reports exists; cleanup never removes the artifact of the active
\* session.
C24_ActiveArtifactKept ==
  isRecording => (currentRecordingPath # NULL /\ Exists(currentRecordingPath))

\* C25: for every recorded byte sequence B, the data URL the renderer makes
\* of it is decoded by the transcribe-web-audio handler to exactly B: the
\* temporary file holds B and the client reads B from it for its request.
C25_InlineRoundTrip ==
  /\ BufferFromBase64(SplitSecond(DataUrl(audioBlob)).text) = audioBlob
  /\ \A c \in TxCalls :
        (tx[c].pc # "idle" /\ tx[c].via = "inline")
        => (/\ tx[c].path \in DOMAIN disk
            /\ disk[tx[c].path] = audioBlob
            /\ tx[c].audioData = audioBlob)
  /\ (txDone.pc = "done" /\ txDone.via = "inline" /\ txDone.sent > 0)
       => txDone.audioData = audioBlob

\* A two-byte blob (one "=" of padding) was decoded and sent.
C25_Witness ==
  /\ Len(audioBlob) = 2 /\ audioBlob[1] = 165 /\ audioBlob[2] = 255
  /\ \E c \in TxCalls : tx[c].pc = "fetch" /\ tx[c].via = "inline"
                          /\ tx[c].audioData = audioBlob

\* C26: a stop-audio-recording command that returns success sends, to the
\* window there is, exactly one audio-recording-stopped event, with the
\* path the command returns, which is the path the session's start
\* returned; a stop that returns a failure sends none, and no other command
\* sends one.
C26_StoppedEventOncePerSuccess ==
  [][ /\ (resp'.cmd = "stop" /\ resp'.success /\ mainWindow)
         => (/\ emitted' = <<RecordingStopped(resp'.path)>>
             /\ resp'.path # NULL
             /\ resp'.path = startedPath)
      /\ (resp'.cmd = "stop" /\ ~resp'.success) => emitted' = <<>>
      /\ (resp'.cmd # "stop") => emitted' = <<>>
    ]_vars

\* The second session was stopped and its path announced.
C26_Witness ==
  /\ resp.cmd = "stop" /\ resp.success /\ resp.path = AudioPath(2)
  /\ emitted = <<RecordingStopped(AudioPath(2))>>

\* The current path names a file shorter than the warning threshold.
SmallArtifact ==
  /\ currentRecordingPath # NULL
  /\ Exists(currentRecordingPath)
  /\ Len(disk[currentRecordingPath]) < MinArtifactSize

\* C27: when stopRecording comes to verify an artifact that exists but is
\* shorter than 100 bytes (every fallback session's 44-byte header, or an
\* empty file left by a capture process), it returns success with the path
\* and leaves the controller idle.
C27_SmallArtifactOnlyWarns ==
  [][ \A c \in StopCalls :
        /\ (SmallArtifact /\ audioHelper /\ isRecording
              /\ recordingProcess = NoProcess /\ stopPc[c] = "idle"
              /\ resp'.cmd = "stop" /\ resp'.call = c)
           => (/\ resp'.success /\ resp'.path = currentRecordingPath
               /\ ~isRecording' /\ currentRecordingPath' = NULL)
        /\ (SmallArtifact /\ stopPc[c] = "grace" /\ stopPc'[c] = "idle")
           => (/\ resp'.success /\ resp'.path = currentRecordingPath
               /\ ~isRecording' /\ currentRecordingPath' = NULL)
    ]_vars

\* A capture session whose process left an empty file was stopped.
C27_Witness ==
  /\ resp.cmd = "stop" /\ resp.success /\ resp.path \in DOMAIN disk
  /\ disk[resp.path] = <<>>
  /\ ~isRecording /\ spawned # {}

\* No stop call other than c is waiting for its grace period.
OnlyStopInFlight(c) == \A d \in StopCalls \ {c} : stopPc[d] = "idle"

C29_RemoteErrorMessage ==
  (txDone.pc = "done" /\ txDone.errorBody # "none")
    => (/\ ~resp.success
        /\ resp.error =
             IF txDone.errorBody = "json-with-message"
               THEN "Failed to transcribe audio: OpenAI API error: error.message"
               ELSE "Failed to transcribe audio: OpenAI API error: statusText")

\* C30: a transcribeAudio call whose file exists and whose credential is
\* set sends one request when it starts, sends nothing more while it waits,
\* and has sent exactly one when it returns, whether the request succeeded,
\* failed or timed out; a call that fails a check returns at once and has
\* sent none.
C30_ExactlyOneRequest ==
  [][ /\ \A c \in TxCalls :
           /\ (tx[c].pc = "idle" /\ tx'[c].pc # "idle")
              => (/\ tx'[c].sent = 1 /\ tx'[c].pc = "fetch"
                  /\ tx'[c].path \in DOMAIN disk /\ apiKey # "")
           /\ (tx[c].pc # "idle" /\ tx'[c].pc # "idle")
              => tx'[c].sent = tx[c].sent
           /\ (tx[c].pc # "idle" /\ tx'[c].pc = "idle")
              => (txDone'.pc = "done" /\ txDone'.sent = 1 /\ tx[c].sent = 1)
      /\ (TxImmediate /\ txDone'.via = "client")
         => (/\ txDone'.sent = 0
             /\ (txDone'.path \notin DOMAIN disk \/ apiKey = ""))
    ]_vars

\* A call whose request failed in transport returned after one request.
C30_Witness ==
  /\ resp.cmd = "transcribe"
  /\ resp.error = "Failed to transcribe audio: network error"
  /\ txDone.via = "client" /\ txDone.sent = 1
  /\ \A c \in TxCalls : tx[c].pc = "idle"

\* The quoted names of the lines that carry the device marker and a quoted
\* name, in the order of the lines.
MarkerNames(lines) ==
  LET keep == SelectSeq(lines, LAMBDA l : l.audio /\ l.quoted # "") IN
  [i \in 1..Len(keep) |-> keep[i].quoted]

\* C31 (as claimed): on every platform, whenever listAudioDevices has run
\* FFmpeg and returned, with exit code zero or not, the list it returns is
\* the quoted names of the marker lines of the diagnostic output, in order.
C31_DevicesParsedEverywhere ==
  (devCall.pc = "returned" /\ devCall.exec \in {"exit0", "error"})
    => devCall.devices = MarkerNames(devCall.stderr)

\* C32 (as claimed): once the helper was constructed and detectFFmpeg has
\* completed with a path, the constructor has called listAudioDevices.
C32_ConstructorListsDevices ==
  (audioHelper /\ detectPc = "done" /\ ffmpegPath) => devCall.ctor

\* The state a start leaves when writing the fallback artifact failed: not
\* recording, with the path it had allocated.
AfterFailedWrite ==
  audioHelper /\ ~isRecording /\ currentRecordingPath # NULL

\* C33: a start whose write of the fallback artifact fails returns a failure
\* result, writes no file and leaves the flag false and no process; from
\* then on status reports not recording, stop fails with "Not currently
\* recording" and changes nothing, and the next start is not rejected and
\* allocates a path different from the failed one.
C33_FailedWriteStaysIdle ==
  [][ /\ (resp'.cmd = "start" /\ resp'.error = "Failed to simulate recording")
         => (/\ ~resp'.success /\ resp'.path = NULL
             /\ ~isRecording /\ ~isRecording' /\ recordingProcess' = NoProcess
             /\ disk' = disk /\ AfterFailedWrite')
      /\ (AfterFailedWrite /\ resp'.cmd = "status") => ~resp'.recording
      /\ (AfterFailedWrite /\ resp'.cmd = "stop")
         => (/\ ~resp'.success /\ resp'.error = "Not currently recording"
             /\ UNCHANGED <<ctl, disk>>)
      /\ (AfterFailedWrite /\ resp'.cmd = "start")
         => (/\ resp'.error # "Already recording"
             /\ currentRecordingPath' # currentRecordingPath
             /\ currentRecordingPath' \notin DOMAIN disk
             /\ resp'.success => (resp'.path = currentRecordingPath' /\ isRecording'))
    ]_vars

\* A start failed to write its artifact and a stop was then rejected.
C33_Witness ==
  /\ AfterFailedWrite /\ currentRecordingPath \notin DOMAIN disk
  /\ resp.cmd = "stop" /\ resp.error = "Not currently recording"

\* A step of a transcription command: a handler starts, resumes or returns.
TranscriptionStep == resp'.cmd = "transcribe" \/ tx' # tx

\* C34: no step of a transcription command, whatever its outcome, changes
\* the recording flag, the artifact path, the process handle, the processes
\* or a suspended start or stop; every file outside the temporary directory
\* stays with its content; a command given a path changes no file at all;
\* the only file deleted is the temporary file of the inline command that
\* returns in that step.
C34_TranscriptionLeavesSession ==
  [][ TranscriptionStep =>
        /\ UNCHANGED <<isRecording, currentRecordingPath, recordingProcess,
                       alive, spawned, stopPc, startPc, startedPath>>
        /\ \A p \in DOMAIN disk :
              p[1] # "temp" => (p \in DOMAIN disk' /\ disk'[p] = disk[p])
        /\ \A p \in DOMAIN disk \ DOMAIN disk' :
              txDone'.pc = "done" /\ txDone'.via = "inline" /\ txDone'.path = p
        /\ \A p \in DOMAIN disk' \ DOMAIN disk : p[1] = "temp"
        /\ (txDone'.pc = "done" /\ txDone'.via # "inline") => disk' = disk
        /\ \A c \in TxCalls :
              (tx'[c] # tx[c] /\ tx'[c].pc # "idle" /\ tx'[c].via # "inline")
                => disk' = disk
    ]_vars

\* The artifact of the session being recorded was transcribed by path, with
\* a request sent, and is still there.
C34_Witness ==
  /\ resp.cmd = "transcribe" /\ txDone.pc = "done" /\ txDone.via = "path"
  /\ txDone.sent = 1
  /\ isRecording /\ currentRecordingPath = txDone.path
  /\ txDone.path \in DOMAIN disk

\* Call c is an inline transcription waiting for its request.
InlinePending(c) == tx[c].pc # "idle" /\ tx[c].via = "inline"

\* C35: with several inline transcriptions in flight, each has a temporary
\* file of its own: the file is new when the call writes it, it stays with
\* its content through every step in which that call is still waiting, and
\* a temporary file disappears only in the step in which the call that
\* wrote it returns; a step changes the timer and request of one call only.
C35_InlineCallsIsolated ==
  [][ /\ \A c \in TxCalls :
           /\ (tx[c].pc = "idle" /\ tx'[c].pc # "idle" /\ tx'[c].via = "inline")
              => (/\ tx'[c].path \notin DOMAIN disk
                  /\ tx'[c].path \in DOMAIN disk'
                  /\ tx'[c].timer
                  /\ \A b \in TxCalls \ {c} : tx'[b].path # tx'[c].path)
           /\ (InlinePending(c) /\ tx'[c].pc # "idle")
              => (/\ tx'[c].path = tx[c].path
                  /\ tx[c].path \in DOMAIN disk /\ tx[c].path \in DOMAIN disk'
                  /\ disk'[tx[c].path] = disk[tx[c].path])
           /\ \A b \in TxCalls : (tx'[c] # tx[c] /\ tx'[b] # tx[b]) => b = c
      /\ \A p \in DOMAIN disk \ DOMAIN disk' :
           p[1] = "temp" =>
             \E c \in TxCalls : /\ InlinePending(c) /\ tx[c].path = p
                                /\ tx'[c].pc = "idle"
                                /\ txDone'.path = p
    ]_vars

\* The later of two inline calls has returned and its file is gone, while
\* the earlier one still waits with its file and its timer.
C35_Witness ==
  /\ txDone.pc = "done" /\ txDone.via = "inline" /\ txDone.path = TempPath(2)
  /\ txDone.sent = 1 /\ TempPath(2) \notin DOMAIN disk
  /\ \E c \in TxCalls : /\ InlinePending(c) /\ tx[c].path = TempPath(1)
                         /\ tx[c].timer /\ TempPath(1) \in DOMAIN disk

\* C36 (as claimed): once the recorder that stopRecording stopped has
\* delivered its final chunk, the transcription that stop started was built
\* from all the chunks that recorder produced; in particular it was not
\* rejected when the recorder produced any chunk.
C36_TranscribesEveryChunk ==
  LET n == voice.last.rec IN
  (n # 0 /\ voice.recorder[n] = "inactive" /\ voice.produced[n] > 0)
    => (voice.last.kind = "sent" /\ voice.last.chunks = ChunksOf(voice, n))

\* C37 (as claimed): at most one MediaRecorder is recording and at most one
\* microphone stream is live, and a live stream is the one audioStreamRef
\* refers to, so that a later stop can stop it.
C37_OneRecorderAtATime ==
  /\ Cardinality({n \in Recorders : voice.recorder[n] = "recording"}) <= 1
  /\ Cardinality({n \in Recorders : voice.track[n] = "live"}) <= 1
  /\ \A n \in Recorders : voice.track[n] = "live" => voice.audioStreamRef = n
====
